---------------------------- MODULE Spec2Model ----------------------------
(***************************************************************************)
(* sandbox-mailer: the mail capture pipeline of src/server/index.js.       *)
(*                                                                         *)
(* The state is the module-level state of the server (the two stores, the  *)
(* configuration, the rate-limit counter), the wall clock and the 1000ms   *)
(* interval timer, and for every SMTP session the position of its onData   *)
(* handler together with the locals the handler keeps across its awaits.   *)
(* Node runs one callback at a time: every action below is one such        *)
(* callback (or the synchronous part of onData between two awaits).        *)
(***************************************************************************)
EXTENDS Integers, Sequences, FiniteSets, TLC

(* ----------------------------- bounds --------------------------------- *)

\* Number of SMTP sessions (connections that reach the DATA phase).
NumSessions == 2

\* Number of REST requests served.
MaxApi == 1

\* Number of half-window clock steps.
MaxTicks == 2

\* Number of clients that drop their connection during the data phase.
MaxDrops == 1

\* Number of config updates in the configuration-only specification.
MaxPuts == 2

(* ------------------------- program constants -------------------------- *)

\* emails.length > 100 (index.js:163)
MaxEmails == 100

\* errors.length > 50 (index.js:115, 181)
MaxErrors == 50

\* setInterval(..., 1000) (index.js:41) and now % 1000 (index.js:66)
WindowMs == 1000

\* code: 421 (index.js:64)
RateLimitCode == 421

\* code: 451 (index.js:174, 183)
ServerErrorCode == 451

Sessions == 1..NumSessions

\* The clock advances by half a window at a time.
StepMs == WindowMs \div 2

(* ---------------------------- JS values -------------------------------- *)
(* A config field holds whatever JSON value the last update put there.     *)

Bool(b) == [t |-> "bool", v |-> IF b THEN 1 ELSE 0]
Num(n) == [t |-> "num", v |-> n]
\* a non-numeric string such as "abc"
Str == [t |-> "str", v |-> 0]
Null == [t |-> "null", v |-> 0]

\* JS truthiness, as used by !config.rateLimit.enabled
Truthy(x) ==
  CASE x.t = "bool" -> x.v = 1
    [] x.t = "num" -> x.v # 0
    [] x.t = "str" -> TRUE
    [] OTHER -> FALSE

\* ToNumber yields NaN for a non-numeric string.
IsNaN(x) == x.t = "str"

\* ToNumber for the other values: null is 0, true is 1, false is 0.
ToNumber(x) == x.v

\* n >= x for a number n: false whenever x converts to NaN.
JsGe(n, x) == ~IsNaN(x) /\ n >= ToNumber(x)

(* ---------------------------- state ------------------------------------ *)

VARIABLES
  emails,                 \* const emails = []   (newest first)
  errors,                 \* const errors = []   (newest first)
  config,                 \* let config
  emailsInCurrentSecond,  \* let emailsInCurrentSecond
  lastEmailTime,          \* let lastEmailTime
  now,                    \* Date.now()
  nextReset,              \* due time of the setInterval timer
  pc,                     \* per session: position of its onData handler
  rateLimitCheck,         \* per session: the local rateLimitCheck
  wakeAt,                 \* per session: due time of the latency timer
  obs,                    \* per session: what its admission check observed
  out,                    \* per session: what it has produced so far
  nextId,                 \* source of fresh uuids
  res,                    \* the last REST request and its response
  count                   \* how many resets, puts, requests, ticks, drops so far

vars == <<emails, errors, config, emailsInCurrentSecond, lastEmailTime, now,
          nextReset, pc, rateLimitCheck, wakeAt, obs, out, nextId, res, count>>


(* ------------------------- bounded stores ------------------------------ *)

\* Array.prototype.unshift: the new entry becomes the head.
Unshift(store, x) == <<x>> \o store

\* Array.prototype.pop: the tail (oldest) entry is removed.
Pop(store) == SubSeq(store, 1, Len(store) - 1)

\* The insertion without the eviction.
PushEmail_NoEviction(store, email) == Unshift(store, email)

\* The insertion with the capacity test off by one (>= for >).
PushEmail_EvictsEarly(store, email) ==
  LET u == Unshift(store, email)
  IN  IF Len(u) >= MaxEmails THEN Pop(u) ELSE u

\* The insertion at the tail (push for unshift), the head dropped at capacity.
PushEmail_Appends(store, email) ==
  LET u == store \o <<email>>
  IN  IF Len(u) > MaxEmails THEN SubSeq(u, 2, Len(u)) ELSE u

\* emails.unshift(email); if (emails.length > 100) emails.pop();
PushEmail(store, email) ==
  LET u == Unshift(store, email)
  IN  IF Len(u) > MaxEmails THEN Pop(u) ELSE u

\* errors.unshift(errorRecord); if (errors.length > 50) errors.pop();
PushError(store, errorRecord) ==
  LET u == Unshift(store, errorRecord)
  IN  IF Len(u) > MaxErrors THEN Pop(u) ELSE u

Ids(store) == {store[i].id : i \in 1..Len(store)}

(* ------------------------- admission control --------------------------- *)

NoMessage == [kind |-> "none", limit |-> Null, err |-> "none"]

\* `421 4.7.0 Rate limit exceeded: Maximum ${maxPerSecond} email(s) ...`
RateLimitMessage(limit) == [kind |-> "rate_limit", limit |-> limit, err |-> "none"]

\* `451 4.3.0 Server error: ${err.message}`
ServerErrorMessage(e) == [kind |-> "server_error", limit |-> Null, err |-> e]

\* { allowed: true }
Allow == [allowed |-> TRUE, code |-> 0, message |-> NoMessage, retryAfter |-> 0]

\* checkRateLimit without its first line: the limit applies although rate
\* limiting is switched off.
checkRateLimit_IgnoresSwitch ==
  IF JsGe(emailsInCurrentSecond, config.rateLimit.maxPerSecond)
  THEN [allowed    |-> FALSE,
        code       |-> RateLimitCode,
        message    |-> RateLimitMessage(config.rateLimit.maxPerSecond),
        retryAfter |-> WindowMs - (now % WindowMs)]
  ELSE Allow

\* checkRateLimit with the retry delay counted from time 0 instead of from the
\* start of the current second.
checkRateLimit_NoModulo ==
  IF ~Truthy(config.rateLimit.enabled) THEN Allow
  ELSE IF JsGe(emailsInCurrentSecond, config.rateLimit.maxPerSecond)
       THEN [allowed    |-> FALSE,
             code       |-> RateLimitCode,
             message    |-> RateLimitMessage(config.rateLimit.maxPerSecond),
             retryAfter |-> WindowMs - now]
       ELSE Allow

\* The value checkRateLimit() returns in the current state.
checkRateLimit ==
  IF ~Truthy(config.rateLimit.enabled) THEN Allow
  ELSE IF JsGe(emailsInCurrentSecond, config.rateLimit.maxPerSecond)
       THEN [allowed    |-> FALSE,
             code       |-> RateLimitCode,
             message    |-> RateLimitMessage(config.rateLimit.maxPerSecond),
             retryAfter |-> WindowMs - (now % WindowMs)]
       ELSE Allow

\* The delays drawn when the lower bound is left out of the formula:
\* Math.floor(Math.random() * (maxMs + 1)).
LatencyDelays_FromZero ==
  LET hi == config.latency.maxMs
  IN  IF IsNaN(hi) THEN {-1} ELSE 0..ToNumber(hi)

\* The delays simulateLatency() can draw when latency is enabled:
\* Math.floor(Math.random() * (maxMs - minMs + 1) + minMs), Math.random() in [0,1).
\* -1 stands for NaN (a non-numeric bound).
LatencyDelays ==
  LET lo == config.latency.minMs
      hi == config.latency.maxMs
      span == ToNumber(hi) - ToNumber(lo) + 1
  IN  IF IsNaN(lo) \/ IsNaN(hi) THEN {-1}
      ELSE IF span >= 1 THEN ToNumber(lo)..ToNumber(hi)
      ELSE IF span = 0 THEN {ToNumber(lo)}
      ELSE (ToNumber(hi) + 1)..ToNumber(lo)

\* setTimeout(resolve, delay): due no earlier than now.
TimerDue(delay) == now + (IF delay < 0 THEN 0 ELSE delay)

(* ------------------------- initial state ------------------------------- *)

\* The default configuration.
DefaultConfig ==
  [rateLimit |-> [enabled |-> Bool(TRUE), maxPerSecond |-> Num(1)],
   latency   |-> [enabled |-> Bool(FALSE), minMs |-> Num(0), maxMs |-> Num(0)]]

\* parsed.attachments?.map(a => ({id, filename, ..., content, cid})) || []:
\* a "plain" message has no attachment, an "attached" one has one, whose
\* content is kept in base64.
Attachments(m) ==
  IF m = "attached"
  THEN << [id |-> 1, filename |-> "unnamed", size |-> 1, content |-> "base64"] >>
  ELSE << >>

\* An Email captured before the modelled sessions (sender 0, time 0), from a
\* message with an attachment.
OldEmail(i) ==
  [id |-> MaxEmails - i, from |-> 0, parsed |-> "attached",
   attachments |-> Attachments("attached"), receivedAt |-> 0]

\* An ErrorRecord recorded before the modelled sessions.
OldError(i) ==
  [id |-> MaxEmails + MaxErrors - i, type |-> "rate_limit", code |-> RateLimitCode,
   message |-> RateLimitMessage(Num(1)), timestamp |-> 0, from |-> 0]

NoObs ==
  [win |-> 0, ver |-> 0, cnt |-> 0, enabled |-> Bool(TRUE), limit |-> Num(1),
   delay |-> 0]

NoOut == [emails |-> 0, errors |-> 0, callbacks |-> 0, code |-> 0, message |-> NoMessage]

NoRes == [op |-> "none", status |-> 0]

\* The state of a server with configuration cfg at time t, no session in its
\* data phase: freshly started, or with both stores one entry short of their
\* capacity.
Start(cfg, filled, t) ==
  /\ emails = IF filled THEN [i \in 1..(MaxEmails - 1) |-> OldEmail(i)] ELSE << >>
  /\ errors = IF filled THEN [i \in 1..(MaxErrors - 1) |-> OldError(i)] ELSE << >>
  /\ now = t
  /\ config = cfg
  /\ emailsInCurrentSecond = 0
  /\ lastEmailTime = 0
  /\ nextReset = now + WindowMs
  /\ pc = [s \in Sessions |-> "idle"]
  /\ rateLimitCheck = [s \in Sessions |-> Allow]
  /\ wakeAt = [s \in Sessions |-> 0]
  /\ obs = [s \in Sessions |-> NoObs]
  /\ out = [s \in Sessions |-> NoOut]
  /\ nextId = MaxEmails + MaxErrors
  /\ res = NoRes
  /\ count = [resets |-> 0, puts |-> 0, api |-> 0, ticks |-> 0, drops |-> 0]

\* The server has either just started (empty stores, the clock on a second
\* boundary) or was started half a second off the boundary and has run long
\* enough for both stores to be one entry short of their capacity.
InitWith(cfg) ==
  \E filled \in BOOLEAN : Start(cfg, filled, IF filled THEN StepMs ELSE 0)

\* The state after the module is loaded, or after a long run with the default
\* configuration.
Init == InitWith(DefaultConfig)

(* --------------------------- clock and timer --------------------------- *)

\* Wall-clock time passes; the interval timer is never overdue by more than
\* the callbacks that are already queued.
Advance ==
  /\ count.ticks < MaxTicks
  /\ now + StepMs <= nextReset
  /\ now' = now + StepMs
  /\ count' = [count EXCEPT !.ticks = @ + 1]
  /\ UNCHANGED <<emails, errors, config, emailsInCurrentSecond, lastEmailTime,
                 nextReset, pc, rateLimitCheck, wakeAt, obs, out, nextId, res>>

\* A reset that waits until no session is in its data phase.
Reset_WaitsForSessions ==
  /\ now >= nextReset
  /\ \A s \in Sessions : pc[s] \notin {"draining", "latency", "parsing"}
  /\ emailsInCurrentSecond' = 0
  /\ nextReset' = nextReset + WindowMs
  /\ count' = [count EXCEPT !.resets = @ + 1]
  /\ UNCHANGED <<emails, errors, config, lastEmailTime, now, pc, rateLimitCheck,
                 wakeAt, obs, out, nextId, res>>

\* setInterval(() => { emailsInCurrentSecond = 0; }, 1000)
Reset ==
  /\ now >= nextReset
  /\ emailsInCurrentSecond' = 0
  /\ nextReset' = nextReset + WindowMs
  /\ count' = [count EXCEPT !.resets = @ + 1]
  /\ UNCHANGED <<emails, errors, config, lastEmailTime, now, pc, rateLimitCheck,
                 wakeAt, obs, out, nextId, res>>

(* ------------------------------ onData --------------------------------- *)

\* The record of a denied session with the type of the catch block's record.
RateLimitRecord_WrongType(s, check) ==
  [id |-> nextId, type |-> "server_error", code |-> check.code,
   message |-> check.message, timestamp |-> now, from |-> s]

\* The ErrorRecord of a denied session.
RateLimitRecord(s, check) ==
  [id |-> nextId, type |-> "rate_limit", code |-> check.code,
   message |-> check.message, timestamp |-> now, from |-> s]

\* The record of the catch block with the code of a denial.
ServerErrorRecord_RateLimitCode(s, e) ==
  [id |-> nextId, type |-> "server_error", code |-> RateLimitCode,
   message |-> ServerErrorMessage(e), timestamp |-> now, from |-> s]

\* The ErrorRecord of the catch block.
ServerErrorRecord(s, e) ==
  [id |-> nextId, type |-> "server_error", code |-> ServerErrorCode,
   message |-> ServerErrorMessage(e), timestamp |-> now, from |-> s]

\* The Email built from the parsed message.
NewEmail(s, m) ==
  [id |-> nextId, from |-> s, parsed |-> m, attachments |-> Attachments(m),
   receivedAt |-> now]

\* What the admission check of a session observes, for the record: the window
\* (number of resets so far), the config version (number of updates so far), the
\* counter and the rate-limit settings it read, and the delay it drew.
Observe(delay) ==
  [win |-> count.resets, ver |-> count.puts, cnt |-> emailsInCurrentSecond,
   enabled |-> config.rateLimit.enabled, limit |-> config.rateLimit.maxPerSecond,
   delay |-> delay]

\* onData up to its first suspension: the rate-limit check, and then either
\* the denial (record the error, start draining the stream) or the latency
\* timer, or (latency disabled) straight on to simpleParser(stream).
\* Sessions are numbered in the order in which their DATA commands arrive.
Check(s) ==
  /\ pc[s] = "idle"
  /\ \A t \in 1..(s - 1) : pc[t] # "idle"
  /\ LET check == checkRateLimit IN
     /\ rateLimitCheck' = [rateLimitCheck EXCEPT ![s] = check]
     /\ IF ~check.allowed
        THEN /\ errors' = PushError(errors, RateLimitRecord(s, check))
             /\ nextId' = nextId + 1
             /\ pc' = [pc EXCEPT ![s] = "draining"]
             /\ obs' = [obs EXCEPT ![s] = Observe(0)]
             /\ out' = [out EXCEPT ![s].errors = @ + 1]
             /\ UNCHANGED wakeAt
        ELSE IF ~Truthy(config.latency.enabled)
        THEN /\ pc' = [pc EXCEPT ![s] = "parsing"]
             /\ obs' = [obs EXCEPT ![s] = Observe(0)]
             /\ UNCHANGED <<errors, nextId, out, wakeAt>>
        ELSE \E delay \in LatencyDelays :
             /\ pc' = [pc EXCEPT ![s] = "latency"]
             /\ wakeAt' = [wakeAt EXCEPT ![s] = TimerDue(delay)]
             /\ obs' = [obs EXCEPT ![s] = Observe(delay)]
             /\ UNCHANGED <<errors, nextId, out>>
  /\ UNCHANGED <<emails, config, emailsInCurrentSecond, lastEmailTime, now,
                 nextReset, res, count>>

\* An 'end' handler that finishes the session without calling back.
DrainEnd_NoCallback(s) ==
  /\ pc[s] = "draining"
  /\ pc' = [pc EXCEPT ![s] = "rejected"]
  /\ UNCHANGED <<emails, errors, config, emailsInCurrentSecond, lastEmailTime, now,
                 nextReset, rateLimitCheck, wakeAt, obs, out, nextId, res, count>>

\* stream.on('end', ...) of a denied session: the rejection is handed back.
DrainEnd(s) ==
  /\ pc[s] = "draining"
  /\ pc' = [pc EXCEPT ![s] = "rejected"]
  /\ out' = [out EXCEPT ![s].callbacks = @ + 1,
                        ![s].code = rateLimitCheck[s].code,
                        ![s].message = rateLimitCheck[s].message]
  /\ UNCHANGED <<emails, errors, config, emailsInCurrentSecond, lastEmailTime, now,
                 nextReset, rateLimitCheck, wakeAt, obs, nextId, res, count>>

\* The latency timer fires: the handler resumes and calls simpleParser(stream).
Wake(s) ==
  /\ pc[s] = "latency"
  /\ now >= wakeAt[s]
  /\ pc' = [pc EXCEPT ![s] = "parsing"]
  /\ UNCHANGED <<emails, errors, config, emailsInCurrentSecond, lastEmailTime, now,
                 nextReset, rateLimitCheck, wakeAt, obs, out, nextId, res, count>>

\* The session acknowledged as soon as simpleParser resolves, the Email not
\* stored.
ParseOk_AckWithoutStore(s) ==
  /\ pc[s] = "parsing"
  /\ pc' = [pc EXCEPT ![s] = "acked"]
  /\ out' = [out EXCEPT ![s].callbacks = @ + 1]
  /\ UNCHANGED <<emails, errors, config, emailsInCurrentSecond, lastEmailTime, now,
                 nextReset, rateLimitCheck, wakeAt, obs, nextId, res, count>>

\* simpleParser resolves: the Email is built and stored, the counter advanced,
\* the session acknowledged.
ParseOk(s) ==
  /\ pc[s] = "parsing"
  /\ \E m \in {"plain"} : emails' = PushEmail(emails, NewEmail(s, m))
  /\ nextId' = nextId + 1
  /\ emailsInCurrentSecond' = emailsInCurrentSecond + 1
  /\ lastEmailTime' = now
  /\ pc' = [pc EXCEPT ![s] = "acked"]
  /\ out' = [out EXCEPT ![s].emails = @ + 1, ![s].callbacks = @ + 1]
  /\ UNCHANGED <<errors, config, now, nextReset, rateLimitCheck, wakeAt, obs, res,
                 count>>

\* A catch block that also counts the failed message against the window.
ParseFail_CountsFailure(s) ==
  /\ pc[s] = "parsing"
  /\ \E e \in {"decode"} :
       /\ errors' = PushError(errors, ServerErrorRecord(s, e))
       /\ out' = [out EXCEPT ![s].errors = @ + 1,
                             ![s].callbacks = @ + 1,
                             ![s].code = ServerErrorCode,
                             ![s].message = ServerErrorMessage(e)]
  /\ nextId' = nextId + 1
  /\ emailsInCurrentSecond' = emailsInCurrentSecond + 1
  /\ pc' = [pc EXCEPT ![s] = "rejected"]
  /\ UNCHANGED <<emails, config, lastEmailTime, now, nextReset, rateLimitCheck,
                 wakeAt, obs, res, count>>

\* A failure raised after the Email was stored: the catch block runs on top of
\* the success path, and the callback is invoked a second time.
ParseFail_AfterStore(s) ==
  /\ pc[s] = "parsing"
  /\ \E e \in {"decode"} :
       /\ emails' = PushEmail(emails, NewEmail(s, "plain"))
       /\ errors' = PushError(errors, ServerErrorRecord(s, e))
       /\ out' = [out EXCEPT ![s].emails = @ + 1,
                             ![s].errors = @ + 1,
                             ![s].callbacks = @ + 2,
                             ![s].code = ServerErrorCode,
                             ![s].message = ServerErrorMessage(e)]
  /\ nextId' = nextId + 1
  /\ emailsInCurrentSecond' = emailsInCurrentSecond + 1
  /\ lastEmailTime' = now
  /\ pc' = [pc EXCEPT ![s] = "rejected"]
  /\ UNCHANGED <<config, now, nextReset, rateLimitCheck, wakeAt, obs, res, count>>

\* simpleParser (or the building of the Email) throws: the catch block.
ParseFail(s) ==
  /\ pc[s] = "parsing"
  /\ \E e \in {"decode"} :
       /\ errors' = PushError(errors, ServerErrorRecord(s, e))
       /\ out' = [out EXCEPT ![s].errors = @ + 1,
                             ![s].callbacks = @ + 1,
                             ![s].code = ServerErrorCode,
                             ![s].message = ServerErrorMessage(e)]
  /\ nextId' = nextId + 1
  /\ pc' = [pc EXCEPT ![s] = "rejected"]
  /\ UNCHANGED <<emails, config, emailsInCurrentSecond, lastEmailTime, now,
                 nextReset, rateLimitCheck, wakeAt, obs, res, count>>

\* The client drops the connection during the data phase: the stream never
\* ends, nothing in onData handles it and the handler never resumes.
Disconnect(s) ==
  /\ count.drops < MaxDrops
  /\ pc[s] \in {"draining", "latency", "parsing"}
  /\ pc' = [pc EXCEPT ![s] = "closed"]
  /\ count' = [count EXCEPT !.drops = @ + 1]
  /\ UNCHANGED <<emails, errors, config, emailsInCurrentSecond, lastEmailTime, now,
                 nextReset, rateLimitCheck, wakeAt, obs, out, nextId, res>>

(* ------------------------------ REST API ------------------------------- *)

\* The group replaced by the update instead of merged with it.
Spread_Replaces(a, b) == b

\* { ...a, ...b }: the keys of b overwrite, the other keys of a stay.
Spread(a, b) ==
  [k \in (DOMAIN a) \cup (DOMAIN b) |-> IF k \in DOMAIN b THEN b[k] ELSE a[k]]

\* The body of app.put('/api/config'): each group present in the request body
\* is spread over the stored group.
MergeConfig(cfg, body) ==
  [rateLimit |-> IF "rateLimit" \in DOMAIN body
                 THEN Spread(cfg.rateLimit, body.rateLimit)
                 ELSE cfg.rateLimit,
   latency   |-> IF "latency" \in DOMAIN body
                 THEN Spread(cfg.latency, body.latency)
                 ELSE cfg.latency]

\* PUT /api/config
PutConfig(body) ==
  /\ config' = MergeConfig(config, body)
  /\ res' = [op |-> "putConfig", status |-> 200, body |-> body]
  /\ count' = [count EXCEPT !.puts = @ + 1, !.api = @ + 1]
  /\ UNCHANGED <<emails, errors, emailsInCurrentSecond, lastEmailTime, now,
                 nextReset, pc, rateLimitCheck, wakeAt, obs, out, nextId>>

\* A miss taken for the last index, as splice(-1, 1) would.
FindIndex_MissIsLast(store, id) ==
  IF id \in Ids(store)
  THEN CHOOSE i \in 1..Len(store) :
         store[i].id = id /\ \A j \in 1..(i - 1) : store[j].id # id
  ELSE Len(store)

\* emails.findIndex(e => e.id === id): 0 stands for -1.
FindIndex(store, id) ==
  IF id \in Ids(store)
  THEN CHOOSE i \in 1..Len(store) :
         store[i].id = id /\ \A j \in 1..(i - 1) : store[j].id # id
  ELSE 0

\* emails.splice(index): everything from index on is removed.
Splice_RemovesRest(store, index) == SubSeq(store, 1, index - 1)

\* emails.splice(index, 1)
Splice(store, index) ==
  SubSeq(store, 1, index - 1) \o SubSeq(store, index + 1, Len(store))

\* a => ({id, filename, contentType, size, cid}): the attachment less its content
Metadata(a) == [id |-> a.id, filename |-> a.filename, size |-> a.size]

\* { ...email, attachments: email.attachments.map(...) }: a new object
EmailResponse(email) ==
  [email EXCEPT !.attachments = [k \in 1..Len(@) |-> Metadata(@[k])]]

\* A single-email read that cuts the stored attachments down to their metadata.
GetEmail_StripsStored(id) ==
  /\ LET index == FindIndex(emails, id) IN
       IF index = 0
       THEN /\ res' = [op |-> "getEmail", status |-> 404, id |-> id]
            /\ UNCHANGED emails
       ELSE /\ emails' = [emails EXCEPT ![index] = EmailResponse(@)]
            /\ res' = [op |-> "getEmail", status |-> 200, id |-> id,
                       email |-> EmailResponse(emails[index])]
  /\ count' = [count EXCEPT !.api = @ + 1]
  /\ UNCHANGED <<errors, config, emailsInCurrentSecond, lastEmailTime, now,
                 nextReset, pc, rateLimitCheck, wakeAt, obs, out, nextId>>

\* GET /api/emails/:id
GetEmail(id) ==
  /\ LET index == FindIndex(emails, id) IN
       res' = IF index = 0
              THEN [op |-> "getEmail", status |-> 404, id |-> id]
              ELSE [op |-> "getEmail", status |-> 200, id |-> id,
                    email |-> EmailResponse(emails[index])]
  /\ count' = [count EXCEPT !.api = @ + 1]
  /\ UNCHANGED <<emails, errors, config, emailsInCurrentSecond, lastEmailTime, now,
                 nextReset, pc, rateLimitCheck, wakeAt, obs, out, nextId>>

\* DELETE /api/emails/:id
DeleteEmail(id) ==
  /\ LET index == FindIndex(emails, id) IN
       IF index = 0
       THEN /\ res' = [op |-> "deleteEmail", status |-> 404, id |-> id]
            /\ UNCHANGED emails
       ELSE /\ emails' = Splice(emails, index)
            /\ res' = [op |-> "deleteEmail", status |-> 200, id |-> id]
  /\ count' = [count EXCEPT !.api = @ + 1]
  /\ UNCHANGED <<errors, config, emailsInCurrentSecond, lastEmailTime, now,
                 nextReset, pc, rateLimitCheck, wakeAt, obs, out, nextId>>

\* A clearing of the store that also starts a new window.
DeleteAllEmails_ResetsCounter ==
  /\ emails' = << >>
  /\ emailsInCurrentSecond' = 0
  /\ res' = [op |-> "deleteAllEmails", status |-> 200]
  /\ count' = [count EXCEPT !.api = @ + 1]
  /\ UNCHANGED <<errors, config, lastEmailTime, now, nextReset, pc, rateLimitCheck,
                 wakeAt, obs, out, nextId>>

\* DELETE /api/emails
DeleteAllEmails ==
  /\ emails' = << >>
  /\ res' = [op |-> "deleteAllEmails", status |-> 200]
  /\ count' = [count EXCEPT !.api = @ + 1]
  /\ UNCHANGED <<errors, config, emailsInCurrentSecond, lastEmailTime, now,
                 nextReset, pc, rateLimitCheck, wakeAt, obs, out, nextId>>

\* DELETE /api/errors
ClearErrors ==
  /\ errors' = << >>
  /\ res' = [op |-> "clearErrors", status |-> 200]
  /\ count' = [count EXCEPT !.api = @ + 1]
  /\ UNCHANGED <<emails, config, emailsInCurrentSecond, lastEmailTime, now,
                 nextReset, pc, rateLimitCheck, wakeAt, obs, out, nextId>>

\* GET /api/stats
GetStats ==
  /\ res' = [op |-> "getStats", status |-> 200,
             totalEmails |-> Len(emails), totalErrors |-> Len(errors),
             emailsInCurrentSecond |-> emailsInCurrentSecond, config |-> config]
  /\ count' = [count EXCEPT !.api = @ + 1]
  /\ UNCHANGED <<emails, errors, config, emailsInCurrentSecond, lastEmailTime, now,
                 nextReset, pc, rateLimitCheck, wakeAt, obs, out, nextId>>

(* ------------------------------ inputs --------------------------------- *)

\* The ids a client asks for: the entry in the middle of the store, and an id
\* that was never assigned.
RequestIds ==
  {0} \cup (IF emails = << >> THEN {} ELSE {emails[(Len(emails) + 1) \div 2].id})

\* The config updates sent while sessions are running.
SessionBodies ==
  { [rateLimit |-> [maxPerSecond |-> Num(2)]],
    [rateLimit |-> [enabled |-> Bool(FALSE)]],
    [latency |-> [enabled |-> Bool(TRUE), maxMs |-> Num(1)]] }

\* The JSON values a client may put in each field.
FieldValues(f) ==
  CASE f = "enabled" -> {Bool(TRUE), Bool(FALSE)}
    [] f = "maxPerSecond" -> {Num(1), Num(2), Str, Null}
    [] f = "minMs" -> {Num(0), Num(1)}
    [] f = "maxMs" -> {Num(0), Num(2), Str}

\* Every object that gives some of the fields a value.
Partial(fields) ==
  LET all == UNION {FieldValues(f) : f \in fields}
  IN  {u \in UNION {[S -> all] : S \in SUBSET fields} :
         \A f \in DOMAIN u : u[f] \in FieldValues(f)}

GroupFields(g) ==
  IF g = "rateLimit" THEN {"enabled", "maxPerSecond"} ELSE {"enabled", "minMs", "maxMs"}

\* Every request body that gives some of the groups a partial object.
AllBodies ==
  LET groups == {"rateLimit", "latency"}
      all == UNION {Partial(GroupFields(g)) : g \in groups}
  IN  {b \in UNION {[G -> all] : G \in SUBSET groups} :
         \A g \in DOMAIN b : b[g] \in Partial(GroupFields(g))}

\* Configurations that earlier updates can have left: the default, a limit of
\* two, rate limiting off, and latency of 0 to 1 ms.
StartConfigs ==
  {MergeConfig(DefaultConfig, body) : body \in SessionBodies \cup {<< >>}}

(* --------------------------- specifications ---------------------------- *)

\* The steps of the SMTP sessions.
SessionNext ==
  \/ \E s \in Sessions : Check(s)
  \/ \E s \in Sessions : DrainEnd(s)
  \/ \E s \in Sessions : Wake(s)
  \/ \E s \in Sessions : ParseOk(s)
  \/ \E s \in Sessions : ParseFail(s)
  \/ \E s \in Sessions : Disconnect(s)

\* The clock and the interval timer.
ClockNext ==
  \/ Advance
  \/ Reset

\* The REST requests.
RestNext ==
  \/ count.api < MaxApi /\ \E body \in SessionBodies : PutConfig(body)
  \/ count.api < MaxApi /\ \E id \in RequestIds : GetEmail(id)
  \/ count.api < MaxApi /\ \E id \in RequestIds : DeleteEmail(id)
  \/ count.api < MaxApi /\ DeleteAllEmails
  \/ count.api < MaxApi /\ ClearErrors

Next == SessionNext \/ ClockNext \/ RestNext

\* Sessions, the timer and REST requests in every interleaving.
Spec == Init /\ [][Next]_vars

\* Sessions and the timer, from every start configuration.
ClockInit == \E cfg \in StartConfigs : InitWith(cfg)

ClockSpec == ClockInit /\ [][SessionNext \/ ClockNext]_vars


\* Sessions and REST requests within one instant of the clock.
RestSpec == Init /\ [][SessionNext \/ RestNext]_vars

\* The same, where the input stream of a connected client does reach its end.
FairRestSpec == RestSpec /\ \A s \in Sessions : WF_vars(DrainEnd(s))

\* Config updates alone, with every request body.
ConfigInit == Init /\ emails = << >>

ConfigNext == count.puts < MaxPuts /\ \E body \in AllBodies : PutConfig(body)

ConfigSpec == ConfigInit /\ [][ConfigNext]_vars

\* The values of Date.now() at which the sessions below run: every offset
\* within a second, and the first instants of the next second.
Times == 0..(WindowMs + 1)

\* Sessions that are checked and stored at one instant, at any time.
TimeInit == \E t \in Times : Start(DefaultConfig, FALSE, t)

TimeNext ==
  \/ \E s \in Sessions : Check(s)
  \/ \E s \in Sessions : DrainEnd(s)
  \/ \E s \in Sessions : ParseOk(s)

TimeSpec == TimeInit /\ [][TimeNext]_vars

\* Every latency group an update can leave on top of the default.
LatencyConfigs ==
  {MergeConfig(DefaultConfig, [latency |-> l]) : l \in Partial(GroupFields("latency"))}

\* Sessions and their latency timers, from every latency configuration.
LatencyInit == \E cfg \in LatencyConfigs : Start(cfg, FALSE, 0)

LatencyNext ==
  \/ \E s \in Sessions : Check(s)
  \/ \E s \in Sessions : Wake(s)
  \/ \E s \in Sessions : ParseOk(s)
  \/ Advance

LatencySpec == LatencyInit /\ [][LatencyNext]_vars

\* Rate limiting on (the default) or switched off.
CountConfigs ==
  {DefaultConfig, MergeConfig(DefaultConfig, [rateLimit |-> [enabled |-> Bool(FALSE)]])}

\* Sessions, the timer, deletions and the stats endpoint.
CountInit == \E cfg \in CountConfigs : InitWith(cfg)

CountNext ==
  \/ \E s \in Sessions : Check(s)
  \/ \E s \in Sessions : ParseOk(s)
  \/ \E s \in Sessions : ParseFail(s)
  \/ Advance
  \/ Reset
  \/ count.api < MaxApi /\ \E id \in RequestIds : DeleteEmail(id)
  \/ count.api < MaxApi /\ DeleteAllEmails
  \/ count.api < MaxApi /\ GetStats

CountSpec == CountInit /\ [][CountNext]_vars

(* ------------------------------ claims --------------------------------- *)

Checked(s) == pc[s] # "idle"

Admitted(s) == Checked(s) /\ rateLimitCheck[s].allowed

Denied(s) == Checked(s) /\ ~rateLimitCheck[s].allowed

\* The sessions whose admission check ran in the same window and under the
\* same configuration as that of session a.
SameWindow(a) ==
  {s \in Sessions : Checked(s) /\ obs[s].win = obs[a].win /\ obs[s].ver = obs[a].ver}

\* The check of session s ran with rate limiting enabled and a limit N >= 1.
Limited(s) ==
  /\ obs[s].enabled = Bool(TRUE)
  /\ obs[s].limit.t = "num"
  /\ obs[s].limit.v >= 1

\* C1: with rate limiting enabled and maxPerSecond = N, when N+1 messages are
\* checked between two consecutive resets (config unchanged), exactly one is
\* rejected, with code 421, and it is the last of them to be checked.
C1_OneRejectionPerWindow ==
  \A a \in Sessions :
    (Checked(a) /\ Limited(a) /\ Cardinality(SameWindow(a)) = obs[a].limit.v + 1)
      => \E r \in SameWindow(a) :
           /\ Denied(r)
           /\ rateLimitCheck[r].code = RateLimitCode
           /\ \A t \in SameWindow(a) \ {r} : Admitted(t) /\ t < r

\* C2: check and increment are one step relative to other sessions: never are
\* two sessions both past an admission check that saw the one remaining slot of
\* the same window, neither having yet advanced the counter.
C2_CheckAndIncrementAtomic ==
  \A s, t \in Sessions :
    (/\ s # t
     /\ Limited(s)
     /\ obs[s].win = obs[t].win /\ obs[s].ver = obs[t].ver
     /\ obs[s].cnt = obs[s].limit.v - 1 /\ obs[t].cnt = obs[s].cnt
     /\ Admitted(s) /\ Admitted(t))
      => ~(pc[s] \in {"latency", "parsing"} /\ pc[t] \in {"latency", "parsing"})

\* C3: while rateLimit.enabled is false the admission check admits the message,
\* whatever the counter and the limit, and records no error.
C3_DisabledAlwaysAdmits ==
  [][\A s \in Sessions :
       (pc[s] = "idle" /\ pc'[s] # "idle" /\ config.rateLimit.enabled = Bool(FALSE))
         => /\ rateLimitCheck'[s].allowed
            /\ pc'[s] \in {"latency", "parsing"}
            /\ errors' = errors
            /\ out'[s].errors = 0]_vars

\* A session was admitted with rate limiting off although the counter had
\* reached the limit.
C3_Witness ==
  \E s \in Sessions :
    /\ Admitted(s)
    /\ obs[s].enabled = Bool(FALSE)
    /\ JsGe(obs[s].cnt, obs[s].limit)

\* store2 is store with x added at the head and, when store was at capacity
\* cap, its tail entry dropped; the other entries keep their order.
InsertedAtHead(store, store2, x, cap) ==
  /\ Len(store2) = (IF Len(store) < cap THEN Len(store) + 1 ELSE cap)
  /\ store2[1] = x
  /\ \A i \in 2..Len(store2) : store2[i] = store[i - 1]

\* C4: an admitted session whose parsing fails adds no Email, adds exactly one
\* ErrorRecord, of type server_error with code 451, and ends rejected with 451.
C4_ParseFailureRecorded ==
  [][\A s \in Sessions :
       (pc[s] = "parsing" /\ pc'[s] = "rejected")
         => /\ emails' = emails
            /\ Len(errors') >= 1
            /\ errors'[1].type = "server_error"
            /\ errors'[1].code = ServerErrorCode
            /\ errors'[1].from = s
            /\ InsertedAtHead(errors, errors', errors'[1], MaxErrors)
            /\ out'[s].emails = 0
            /\ out'[s].errors = 1
            /\ out'[s].callbacks = 1
            /\ out'[s].code = ServerErrorCode]_vars

\* An admitted session was rejected after its parsing failed.
C4_Witness ==
  \E s \in Sessions :
    /\ Admitted(s)
    /\ pc[s] = "rejected"
    /\ out[s].code = ServerErrorCode
    /\ \E i \in 1..Len(errors) : errors[i].from = s /\ errors[i].type = "server_error"

\* C5: the rate counter is advanced only by a session that completes ingestion
\* and stores its Email; a session whose parsing fails or whose client
\* disconnects leaves it as it was.
C5_CounterAdvancedOnlyOnStore ==
  [][/\ emailsInCurrentSecond' > emailsInCurrentSecond
        => /\ emailsInCurrentSecond' = emailsInCurrentSecond + 1
           /\ \E s \in Sessions :
                /\ pc[s] = "parsing" /\ pc'[s] = "acked"
                /\ Len(emails') >= 1
                /\ emails'[1].from = s
                /\ emails'[1].id \notin Ids(emails)
     /\ \A s \in Sessions :
          (pc[s] # pc'[s] /\ pc'[s] \in {"rejected", "closed"})
            => emailsInCurrentSecond' = emailsInCurrentSecond]_vars

\* One admitted session failed in parsing, another was dropped by its client,
\* and the counter of the first window is still zero.
C5_Witness ==
  /\ count.resets = 0
  /\ emailsInCurrentSecond = 0
  /\ \E s, t \in Sessions :
       /\ Admitted(s) /\ pc[s] = "rejected"
       /\ Admitted(t) /\ pc[t] = "closed"

\* C6: a denied session creates no Email, leaves the rate counter, adds exactly
\* one ErrorRecord of type rate_limit with the controller's code 421 and
\* message, and is terminated with that same code and message.
C6_DenialRecordedAndReturned ==
  [][\A s \in Sessions :
       /\ (pc[s] = "idle" /\ pc'[s] # "idle" /\ ~rateLimitCheck'[s].allowed)
            => /\ pc'[s] = "draining"
               /\ emails' = emails
               /\ emailsInCurrentSecond' = emailsInCurrentSecond
               /\ Len(errors') >= 1
               /\ errors'[1].type = "rate_limit"
               /\ errors'[1].code = RateLimitCode
               /\ errors'[1].message = RateLimitMessage(config.rateLimit.maxPerSecond)
               /\ errors'[1].from = s
               /\ InsertedAtHead(errors, errors', errors'[1], MaxErrors)
               /\ rateLimitCheck'[s].code = errors'[1].code
               /\ rateLimitCheck'[s].message = errors'[1].message
               /\ out'[s].emails = 0 /\ out'[s].errors = 1 /\ out'[s].callbacks = 0
       /\ (pc[s] = "draining" /\ pc'[s] = "rejected")
            => /\ emails' = emails
               /\ errors' = errors
               /\ emailsInCurrentSecond' = emailsInCurrentSecond
               /\ out'[s].emails = 0 /\ out'[s].errors = 1 /\ out'[s].callbacks = 1
               /\ out'[s].code = RateLimitCode
               /\ out'[s].code = rateLimitCheck[s].code
               /\ out'[s].message = rateLimitCheck[s].message]_vars

\* A denied session was terminated with the code and message of its record,
\* which is still in the error store.
C6_Witness ==
  \E s \in Sessions :
    /\ Denied(s)
    /\ pc[s] = "rejected"
    /\ \E i \in 1..Len(errors) :
         /\ errors[i].from = s
         /\ errors[i].code = out[s].code
         /\ errors[i].message = out[s].message

\* A session has failed once it has recorded an error.
Failed(s) == out[s].errors >= 1

\* What holds of a failing session at every moment: one ErrorRecord, at most
\* one rejection, the rejection only together with or after the record and
\* with the record's code, and a record without rejection only while the
\* denied session is draining its stream or after its client has gone.
C7_Safe ==
  \A s \in Sessions :
    /\ out[s].errors <= 1
    /\ out[s].callbacks <= 1
    /\ (out[s].callbacks = 1 /\ pc[s] # "acked") => Failed(s)
    /\ (pc[s] = "rejected")
         => /\ out[s].errors = 1 /\ out[s].callbacks = 1
            /\ out[s].code = (IF Denied(s) THEN RateLimitCode ELSE ServerErrorCode)
    /\ (Failed(s) /\ out[s].callbacks = 0)
         => Denied(s) /\ pc[s] \in {"draining", "closed"}

\* C7 as stated: every session that fails eventually has exactly one
\* ErrorRecord and exactly one rejection handed to the sender.
C7_EveryFailureRejected ==
  \A s \in Sessions :
    Failed(s) ~> (out[s].errors = 1 /\ out[s].callbacks = 1)

\* C7 as amended: a failing session records exactly one ErrorRecord and is
\* rejected at most once, never without the record; an ingestion failure is
\* rejected in the step that records it, and a denied session is rejected when
\* its input stream ends, which it eventually does unless the client drops the
\* connection first.
C7_FailureRejectedUnlessDropped ==
  /\ []C7_Safe
  /\ \A s \in Sessions :
       Failed(s) ~> (out[s].errors = 1 /\ (out[s].callbacks = 1 \/ pc[s] = "closed"))

\* A denied session has drained its stream and was handed its rejection.
C7_Witness ==
  \E s \in Sessions :
    /\ Denied(s)
    /\ out[s].errors = 1
    /\ out[s].callbacks = 1
    /\ out[s].code = RateLimitCode

\* C8: the email store never holds more than 100 entries and the error store
\* never more than 50.
C8_StoresBounded ==
  /\ Len(emails) <= MaxEmails
  /\ Len(errors) <= MaxErrors

\* Every session has stored its Email and the email store is at capacity.
C8_Witness ==
  /\ Len(emails) = MaxEmails
  /\ \A s \in Sessions : pc[s] = "acked"

\* C9: an insertion puts the new entry at the head; at capacity it drops exactly
\* the tail entry, below capacity nothing; the other entries keep their order.
C9_InsertEvictsOldest ==
  [][/\ (Len(emails') >= 1 /\ emails'[1].id \notin Ids(emails))
          => InsertedAtHead(emails, emails', emails'[1], MaxEmails)
     /\ (Len(errors') >= 1 /\ errors'[1].id \notin Ids(errors))
          => InsertedAtHead(errors, errors', errors'[1], MaxErrors)]_vars

\* Two Emails were inserted into a store of 99: the oldest entry is gone and the
\* second oldest is now the tail.
C9_Witness ==
  /\ Len(emails) = MaxEmails
  /\ emails[MaxEmails] = OldEmail(MaxEmails - 2)
  /\ emails[1].from # 0 /\ emails[2].from # 0

Groups == {"rateLimit", "latency"}

\* C10: a config update overwrites, in each group it names, the sub-fields it
\* names and keeps the others; a group it does not name is unchanged.
C10_ShallowMerge ==
  [][(count'.puts = count.puts + 1 /\ res'.op = "putConfig")
       => \A g \in Groups :
            IF g \in DOMAIN res'.body
            THEN /\ DOMAIN config'[g] = DOMAIN config[g]
                 /\ \A f \in DOMAIN config[g] :
                      config'[g][f] = (IF f \in DOMAIN res'.body[g]
                                       THEN res'.body[g][f]
                                       ELSE config[g][f])
            ELSE config'[g] = config[g]]_vars

\* The update {latency: {enabled: true}} was applied to a configuration that
\* differed from the default in every other field, and changed only
\* latency.enabled.
C10_Witness ==
  /\ res.op = "putConfig"
  /\ res.body = [latency |-> [enabled |-> Bool(TRUE)]]
  /\ config = [rateLimit |-> [enabled |-> Bool(FALSE), maxPerSecond |-> Num(2)],
               latency   |-> [enabled |-> Bool(TRUE), minMs |-> Num(1),
                              maxMs |-> Num(2)]]

NumericFields ==
  {<<"rateLimit", "maxPerSecond">>, <<"latency", "minMs">>, <<"latency", "maxMs">>}

\* C11: after any sequence of config updates (non-numeric, null or missing
\* numeric fields included) each of maxPerSecond, minMs and maxMs is present
\* and holds a number.
C11_NumericFieldsHoldNumbers ==
  \A p \in NumericFields :
    /\ p[2] \in DOMAIN config[p[1]]
    /\ config[p[1]][p[2]].t = "num"

\* The step is the handling of a REST request of kind op.
Served(op) == count'.api = count.api + 1 /\ res'.op = op

\* The entries of store other than those with the given id, in their order.
Without(store, id) == SelectSeq(store, LAMBDA e : e.id # id)

\* C12: deleting an email by an id that is in the store removes exactly the
\* entry with that id; the other entries stay, in the same order, and the error
\* store, the config and the rate counter are unchanged.
C12_DeleteRemovesOnlyThatEntry ==
  [][(Served("deleteEmail") /\ res'.id \in Ids(emails))
       => /\ res'.status = 200
          /\ Len(emails') = Len(emails) - 1
          /\ emails' = Without(emails, res'.id)
          /\ errors' = errors
          /\ config' = config
          /\ emailsInCurrentSecond' = emailsInCurrentSecond]_vars

\* An entry from the middle of the store was deleted: newer entries and older
\* entries are still there.
C12_Witness ==
  /\ res.op = "deleteEmail"
  /\ res.status = 200
  /\ res.id \notin Ids(emails)
  /\ Len(emails) >= 2
  /\ emails[1].id > res.id
  /\ emails[Len(emails)].id < res.id

\* C13: a lookup or a delete for an id that is not in the store answers 404,
\* leaves the email store unchanged and creates no ErrorRecord.
C13_MissIsNotFound ==
  [][((Served("getEmail") \/ Served("deleteEmail")) /\ res'.id \notin Ids(emails))
       => /\ res'.status = 404
          /\ emails' = emails
          /\ errors' = errors]_vars

\* A delete for an unknown id was answered 404 while the store held entries.
C13_Witness ==
  /\ res.op = "deleteEmail"
  /\ res.status = 404
  /\ res.id \notin Ids(emails)
  /\ Len(emails) >= MaxEmails - 1

\* C14: every denial of the admission check carries a retryAfter within
\* [0, 1000], whatever the current time.
C14_RetryAfterInRange ==
  \A s \in Sessions :
    Denied(s) => rateLimitCheck[s].retryAfter \in 0..WindowMs

\* A session was denied on a second boundary after time 0: its retryAfter is a
\* whole window.
C14_Witness ==
  \E s \in Sessions :
    /\ Denied(s)
    /\ now > 0
    /\ now % WindowMs = 0
    /\ rateLimitCheck[s].retryAfter = WindowMs

\* The latency bounds are numbers with minMs <= maxMs.
LatencyBoundsOrdered ==
  /\ config.latency.minMs.t = "num"
  /\ config.latency.maxMs.t = "num"
  /\ config.latency.minMs.v <= config.latency.maxMs.v

\* C15: an admitted session draws no delay and sets no timer when
\* latency.enabled is false; when it is true and minMs <= maxMs, the delay it
\* draws is an integer d with minMs <= d <= maxMs and its timer is due d ms on.
C15_DelayWithinBounds ==
  [][\A s \in Sessions :
       (pc[s] = "idle" /\ pc'[s] # "idle" /\ rateLimitCheck'[s].allowed)
         => /\ config.latency.enabled = Bool(FALSE)
                 => /\ pc'[s] = "parsing"
                    /\ obs'[s].delay = 0
                    /\ wakeAt'[s] = wakeAt[s]
            /\ (config.latency.enabled = Bool(TRUE) /\ LatencyBoundsOrdered)
                 => /\ pc'[s] = "latency"
                    /\ obs'[s].delay \in Int
                    /\ obs'[s].delay >= config.latency.minMs.v
                    /\ obs'[s].delay <= config.latency.maxMs.v
                    /\ wakeAt'[s] = now + obs'[s].delay]_vars

\* With latency enabled and minMs < maxMs, one session drew minMs and another
\* drew maxMs.
C15_Witness ==
  /\ config.latency.enabled = Bool(TRUE)
  /\ LatencyBoundsOrdered
  /\ config.latency.minMs.v < config.latency.maxMs.v
  /\ \E s, t \in Sessions :
       /\ Admitted(s) /\ obs[s].delay = config.latency.minMs.v
       /\ Admitted(t) /\ obs[t].delay = config.latency.maxMs.v

\* C16: the retryAfter of a denial is the time left until the rate counter is
\* next reset: once that long has passed since a denial, with no reset still
\* pending and no message accepted since the denial, a retry is admitted (the
\* admission check of that instant allows).
C16_RetryAfterReachesReset ==
  \A i \in 1..Len(errors) :
    LET e == errors[i]
    IN  (/\ e.type = "rate_limit"
         /\ e.from \in Sessions
         /\ now >= e.timestamp + rateLimitCheck[e.from].retryAfter
         /\ now < nextReset
         /\ \A j \in 1..Len(emails) : emails[j].id < e.id)
          => checkRateLimit.allowed

\* C17: with latency disabled (the configuration never updated), no other
\* session's admission check runs while an admitted session is between its
\* own check and its counter increment.
C17_NoCheckBeforeIncrement ==
  [][\A s, t \in Sessions :
       (/\ s # t
        /\ count.puts = 0
        /\ config.latency.enabled = Bool(FALSE)
        /\ Admitted(s)
        /\ pc[s] = "parsing"
        /\ pc[t] = "idle")
         => pc'[t] = "idle"]_vars

\* The limit is a number N >= 1.
LimitAtLeastOne ==
  config.rateLimit.maxPerSecond.t = "num" /\ config.rateLimit.maxPerSecond.v >= 1

\* C18: the reset is due every 1000 ms and runs whatever the sessions are
\* doing; it sets the counter to 0 and leaves the stores and the config; with
\* maxPerSecond >= 1 the admission check allows right after it, whatever it
\* answered before and however recently a message was accepted.
C18_ResetIsTimerAligned ==
  /\ [](now >= nextReset => ENABLED Reset)
  /\ [][nextReset' # nextReset => count'.resets = count.resets + 1]_vars
  /\ [][count'.resets = count.resets + 1
          => /\ now = nextReset
             /\ nextReset' = nextReset + WindowMs
             /\ emailsInCurrentSecond' = 0
             /\ emails' = emails
             /\ errors' = errors
             /\ config' = config
             /\ pc' = pc
             /\ LimitAtLeastOne => checkRateLimit'.allowed]_vars

\* With rate limiting on, a message was accepted and another denied in one
\* window; the reset has run, less than 1000 ms after the accepted message, and
\* the admission check now allows.
C18_Witness ==
  /\ Truthy(config.rateLimit.enabled)
  /\ count.resets >= 1
  /\ emailsInCurrentSecond = 0
  /\ now - lastEmailTime < WindowMs
  /\ checkRateLimit.allowed
  /\ \E s, t \in Sessions :
       /\ pc[s] = "acked" /\ obs[s].win = count.resets - 1
       /\ Denied(t) /\ obs[t].win = count.resets - 1
       /\ \E i \in 1..Len(errors) :
            errors[i].from = t /\ errors[i].timestamp >= lastEmailTime

\* The positions a handler can move to from position p.
Successors(p) ==
  CASE p = "idle" -> {"draining", "latency", "parsing"}
    [] p = "draining" -> {"rejected", "closed"}
    [] p = "latency" -> {"parsing", "closed"}
    [] p = "parsing" -> {"acked", "rejected", "closed"}
    [] OTHER -> {}

\* C19: a session goes from its admission check to the latency delay (if any),
\* then to ingestion, then stores and is acknowledged; an Email enters the store
\* only from a session that passed the check and has waited out its delay, and
\* in the step that acknowledges a session its Email is in the store.
C19_StoredBeforeAcknowledged ==
  [][/\ \A s \in Sessions :
          /\ pc'[s] # pc[s] => pc'[s] \in Successors(pc[s])
          /\ (pc[s] = "idle" /\ pc'[s] \in {"latency", "parsing"})
               => rateLimitCheck'[s].allowed
          /\ (pc[s] = "idle" /\ pc'[s] = "parsing") => ~Truthy(config.latency.enabled)
          /\ (pc[s] = "latency" /\ pc'[s] = "parsing") => now >= wakeAt[s]
          /\ (pc'[s] = "acked" /\ pc[s] # "acked")
               => /\ Len(emails') >= 1
                  /\ emails'[1].from = s
                  /\ emails'[1].id \notin Ids(emails)
                  /\ emails'[1].receivedAt >= wakeAt[s]
                  /\ out'[s].emails = 1
                  /\ out'[s].callbacks = 1
                  /\ out'[s].errors = 0
     /\ (Len(emails') >= 1 /\ emails'[1].id \notin Ids(emails))
          => \E s \in Sessions :
               /\ emails'[1].from = s
               /\ rateLimitCheck[s].allowed
               /\ pc[s] = "parsing"
               /\ pc'[s] = "acked"]_vars

\* A session that waited out a latency delay of at least 1 ms has been
\* acknowledged and its Email, received after the delay, is in the store.
C19_Witness ==
  \E s \in Sessions :
    /\ pc[s] = "acked"
    /\ Admitted(s)
    /\ obs[s].delay >= 1
    /\ out[s].callbacks = 1
    /\ \E i \in 1..Len(emails) :
         emails[i].from = s /\ emails[i].receivedAt >= wakeAt[s]

\* C20: an entry of the email store is never modified: whatever the step (a
\* single-email read, a config update, a step of any session), every entry
\* that is still in the store afterwards is, field by field and attachment by
\* attachment, what it was before.
C20_StoredEmailsImmutable ==
  [][LET before == {emails[j] : j \in 1..Len(emails)}
          ids == Ids(emails)
      IN  \A i \in 1..Len(emails') :
            emails'[i].id \in ids => emails'[i] \in before]_vars

\* A stored Email with an attachment was read (the response carries the
\* attachment without its content) while a session stored another Email; the
\* stored attachment still has its content.
C20_Witness ==
  /\ res.op = "getEmail"
  /\ res.status = 200
  /\ Len(res.email.attachments) = 1
  /\ "content" \notin DOMAIN res.email.attachments[1]
  /\ \E s \in Sessions : pc[s] = "acked"
  /\ \E i \in 1..Len(emails) :
       /\ emails[i].id = res.id
       /\ emails[i].attachments = Attachments("attached")
       /\ emails[i].attachments[1].content = "base64"

\* C21: every entry of the error store has type rate_limit with code 421 or
\* type server_error with code 451.
C21_ErrorTypeMatchesCode ==
  \A i \in 1..Len(errors) :
    \/ errors[i].type = "rate_limit" /\ errors[i].code = RateLimitCode
    \/ errors[i].type = "server_error" /\ errors[i].code = ServerErrorCode

\* The error store is full and holds records of both types, the newest one
\* from a session whose parsing failed.
C21_Witness ==
  /\ Len(errors) = MaxErrors
  /\ errors[1].type = "server_error"
  /\ errors[1].from \in Sessions
  /\ \E i \in 2..Len(errors) : errors[i].type = "rate_limit"

\* The sessions that have stored their Email.
Stored == {s \in Sessions : pc[s] = "acked"}

\* C22: the rate counter is the number of Emails stored since the last reset
\* (since the start, before the first reset): a step that stores an Email adds
\* one to it, rate limiting on or off and an entry evicted or not; a reset sets
\* it to 0; no other step, a deletion included, changes it; and the stats
\* endpoint reports it.
C22_CounterCountsStored ==
  /\ [](count.resets = 0 => emailsInCurrentSecond = Cardinality(Stored))
  /\ [][emailsInCurrentSecond' =
          (IF count'.resets = count.resets + 1 THEN 0
           ELSE IF Len(emails') >= 1 /\ emails'[1].id \notin Ids(emails)
           THEN emailsInCurrentSecond + 1
           ELSE emailsInCurrentSecond)]_vars
  /\ [][Served("getStats")
          => res'.emailsInCurrentSecond = emailsInCurrentSecond']_vars

\* With rate limiting off, one Email was stored before the reset and one after
\* it, and then the store was cleared: the counter is still 1.
C22_Witness ==
  /\ config.rateLimit.enabled = Bool(FALSE)
  /\ count.resets = 1
  /\ Cardinality(Stored) = 2
  /\ res.op = "deleteAllEmails"
  /\ emails = << >>
  /\ emailsInCurrentSecond = 1

\* C23: both stores are ordered newest-first by creation time: an Email is
\* never followed by one with a later receivedAt, nor an ErrorRecord by one
\* with a later timestamp.
C23_NewestFirst ==
  /\ \A i \in 1..(Len(emails) - 1) : emails[i].receivedAt >= emails[i + 1].receivedAt
  /\ \A i \in 1..(Len(errors) - 1) : errors[i].timestamp >= errors[i + 1].timestamp

\* The session that was checked first drew the longer delay and stored its
\* Email later than the other: it is the head, with the later receivedAt.
C23_Witness ==
  /\ Len(emails) >= 2
  /\ emails[1].from = 1
  /\ emails[2].from = 2
  /\ obs[1].delay > obs[2].delay
  /\ emails[1].receivedAt > emails[2].receivedAt

\* The number of entries of store that session s put there.
EntriesFrom(store, s) == Cardinality({i \in 1..Len(store) : store[i].from = s})

\* C24: a session adds at most one record in all, and calls back at most once;
\* an acknowledged session has added exactly one Email and no ErrorRecord, a
\* rejected session exactly one ErrorRecord and no Email.
C24_OneRecordOneOutcome ==
  \A s \in Sessions :
    /\ out[s].emails + out[s].errors <= 1
    /\ out[s].callbacks <= 1
    /\ EntriesFrom(emails, s) <= out[s].emails
    /\ EntriesFrom(errors, s) <= out[s].errors
    /\ pc[s] = "acked"
         => out[s].emails = 1 /\ out[s].errors = 0 /\ out[s].callbacks = 1
    /\ pc[s] = "rejected"
         => out[s].emails = 0 /\ out[s].errors = 1 /\ out[s].callbacks = 1
    /\ out[s].emails = 1 => pc[s] = "acked"
    /\ out[s].callbacks = 1 => pc[s] \in {"acked", "rejected"}

\* One session was acknowledged and its Email is in the store; another was
\* rejected and its ErrorRecord is in the error store.
C24_Witness ==
  \E s, t \in Sessions :
    /\ pc[s] = "acked"
    /\ EntriesFrom(emails, s) = 1 /\ EntriesFrom(errors, s) = 0
    /\ pc[t] = "rejected"
    /\ EntriesFrom(errors, t) = 1 /\ EntriesFrom(emails, t) = 0

=============================================================================
